---------------------------- MODULE Spec2Model ----------------------------
(***************************************************************************)
(* A model of src/main.py: the Telegram handler handle_message and the     *)
(* functions it sequences (detect_entity, generate_conversational_response,*)
(* fetch_data, extract_filters, apply_filter, format_response).            *)
(*                                                                         *)
(* Text the code inspects character by character (the inference answer of  *)
(* detect_entity, the condition strings of apply_filter) is a sequence of  *)
(* one-character strings.  Entity and field names are only compared and    *)
(* used as keys, so they are plain strings.  A rendered record is known by *)
(* the lengths of its pieces (see Segments), which is all the truncation   *)
(* code reads from it.                                                     *)
(***************************************************************************)
EXTENDS Integers, Sequences, FiniteSets, TLC

VARIABLES
    pc,             \* position inside handle_message
    hasText,        \* update.message and update.message.text are truthy
    typing,         \* outcome of send_chat_action: "none", "ok", "failed"
    answer,         \* what the inference call of detect_entity produced
    entity,         \* local variable entity: UNBOUND, NONE or an entity name
    fetched,        \* what the HTTP request of fetch_data produced
    all_data,       \* local variable all_data (NONE or a list)
    extracted,      \* what the inference call of extract_filters produced
    filters,        \* local variable filters: ordered (field, cond) pairs
    evalTrace,      \* apply_filter's result for each item it was called on
    filtered_data,  \* local variable filtered_data
    response_text,  \* local variable response_text
    conversational_response,  \* local variable conversational_response
    exc,            \* exception in flight inside the try block, or "none"
    sent,           \* every reply_text call so far, with its outcome
    calls           \* how often each stage was invoked for this message

vars == <<pc, hasText, typing, answer, entity, fetched, all_data, extracted,
          filters, evalTrace, filtered_data, response_text,
          conversational_response, exc, sent, calls>>

-----------------------------------------------------------------------------
(* Bounds of the model *)

\* longest record list a response body is enumerated to
MaxRecords == 2
\* most conditions a filter object is enumerated to
MaxConds == 2

-----------------------------------------------------------------------------
(* Program constants *)

MAX_LEN == 4096
\* the 20 of MAX_LEN - 20
MARGIN == 20
\* len('\n\n---\n\n')
SEP_LEN == 7
\* len of the marker appended to a cut text, as the literal stands in the file
MARKER_LEN == 13
\* len of what stands before "Found" in the title (icon, blank, asterisk), and
\* len of what closes the title ('*:\n\n')
TITLE_ICON_LEN == 6
TITLE_SUFFIX_LEN == 4
\* len of what stands before "No" in the two "none found" messages
NONE_ICON_LEN == 7

UNBOUND == "<unbound>"
NONE == "<None>"

DATA_SOURCES == {"sellers", "warehouses", "products", "logistics",
                 "inspectors", "factories"}

FIELD_TYPES ==
    [products |->
        [product_name |-> "string", product_description |-> "string",
         batch_number |-> "string", factory_id |-> "string",
         product_price |-> "number", product_stock |-> "number",
         mrp |-> "number"],
     warehouses |->
        [name |-> "string", description |-> "string", latitude |-> "number",
         longitude |-> "number", contact_details |-> "string",
         warehouse_size |-> "number", balance |-> "number",
         factory_id |-> "string", product_id |-> "string",
         product_count |-> "number", logistic_count |-> "number"],
     sellers |->
        [name |-> "string", seller_id |-> "string", description |-> "string",
         latitude |-> "number", longitude |-> "number",
         contact_info |-> "string", balance |-> "number",
         products_count |-> "number", order_count |-> "number"],
     logistics |->
        [name |-> "string", logistic_id |-> "string",
         transportation_mode |-> "string", status |-> "string",
         contact_info |-> "string", shipment_cost |-> "number",
         product_id |-> "string", product_stock |-> "number",
         warehouse_id |-> "string", latitude |-> "number",
         longitude |-> "number", balance |-> "number"],
     inspectors |->
        [name |-> "string", inspector_id |-> "string", latitude |-> "number",
         longitude |-> "number", balance |-> "number",
         fee_charge_per_product |-> "number"],
     factories |->
        [name |-> "string", factory_id |-> "string", description |-> "string",
         latitude |-> "number", longitude |-> "number",
         contact_info |-> "string", product_count |-> "number",
         balance |-> "number"]]

\* FIELD_TYPES.get(entity, {}).get(field)
FieldType(e, field) ==
    IF e \in DOMAIN FIELD_TYPES /\ field \in DOMAIN FIELD_TYPES[e]
    THEN FIELD_TYPES[e][field]
    ELSE NONE

-----------------------------------------------------------------------------
(* Text *)

\* the characters of an entity name
EntityChars(e) ==
    CASE e = "sellers"    -> <<"s","e","l","l","e","r","s">>
      [] e = "warehouses" -> <<"w","a","r","e","h","o","u","s","e","s">>
      [] e = "products"   -> <<"p","r","o","d","u","c","t","s">>
      [] e = "logistics"  -> <<"l","o","g","i","s","t","i","c","s">>
      [] e = "inspectors" -> <<"i","n","s","p","e","c","t","o","r","s">>
      [] e = "factories"  -> <<"f","a","c","t","o","r","i","e","s">>

UpperLetters == <<"A","B","C","D","E","F","G","H","I","J","K","L","M",
                  "N","O","P","Q","R","S","T","U","V","W","X","Y","Z">>
LowerLetters == <<"a","b","c","d","e","f","g","h","i","j","k","l","m",
                  "n","o","p","q","r","s","t","u","v","w","x","y","z">>

\* str.lower() on one character
LowerChar(c) ==
    IF \E i \in 1..26 : UpperLetters[i] = c
    THEN LowerLetters[CHOOSE i \in 1..26 : UpperLetters[i] = c]
    ELSE c

Lower(s) == [i \in 1..Len(s) |-> LowerChar(s[i])]

IsSpace(c) == c \in {" ", "\n", "\t"}

RECURSIVE LStrip(_)
LStrip(s) == IF s # <<>> /\ IsSpace(Head(s)) THEN LStrip(Tail(s)) ELSE s

RECURSIVE RStrip(_)
RStrip(s) ==
    IF s # <<>> /\ IsSpace(s[Len(s)]) THEN RStrip(SubSeq(s, 1, Len(s) - 1))
    ELSE s

\* str.strip()
Strip(s) == RStrip(LStrip(s))

\* s.startswith(p) and s.endswith(p)
StartsWith(s, p) == Len(s) >= Len(p) /\ SubSeq(s, 1, Len(p)) = p
EndsWith(s, p) ==
    Len(s) >= Len(p) /\ SubSeq(s, Len(s) - Len(p) + 1, Len(s)) = p

\* t in s
Contains(s, t) ==
    \E i \in 1..(Len(s) - Len(t) + 1) : SubSeq(s, i, i + Len(t) - 1) = t

Digits == <<"0","1","2","3","4","5","6","7","8","9">>
IsDigit(c) == \E d \in 1..10 : Digits[d] = c
DigitVal(c) == (CHOOSE d \in 1..10 : Digits[d] = c) - 1

RECURSIVE DigitsToInt(_)
DigitsToInt(s) ==
    IF s = <<>> THEN 0
    ELSE 10 * DigitsToInt(SubSeq(s, 1, Len(s) - 1)) + DigitVal(s[Len(s)])

RECURSIVE NatToChars(_)
NatToChars(n) ==
    IF n < 10 THEN <<Digits[n + 1]>>
    ELSE NatToChars(n \div 10) \o <<Digits[(n % 10) + 1]>>

\* str(n) for an integer
IntToChars(n) == IF n < 0 THEN <<"-">> \o NatToChars(-n) ELSE NatToChars(n)

\* float(text): surrounding whitespace is dropped, an optional sign, then
\* digits.  The texts of the model hold integer literals only; anything else
\* is the ValueError of float().
ParseFloat(text) ==
    LET s == Strip(text)
        neg == s # <<>> /\ Head(s) = "-"
        body == IF s # <<>> /\ Head(s) \in {"-", "+"} THEN Tail(s) ELSE s
    IN  IF body # <<>> /\ \A i \in 1..Len(body) : IsDigit(body[i])
        THEN [ok |-> TRUE,
              v |-> IF neg THEN -DigitsToInt(body) ELSE DigitsToInt(body)]
        ELSE [ok |-> FALSE, v |-> 0]

-----------------------------------------------------------------------------
(* JSON values *)

Str(s) == [t |-> "str", v |-> s]
Num(n) == [t |-> "num", v |-> n]
Bool(b) == [t |-> "bool", v |-> b]
Null == [t |-> "null", v |-> 0]
\* a JSON object: its members, and the lengths of the pieces its layout
\* renders to (one piece, or several when the rendered text itself holds the
\* separator '\n\n---\n\n')
Obj(members, segs) == [t |-> "obj", v |-> members, segs |-> segs]

IsDict(x) == x.t = "obj"

\* str(x) of a scalar
StrOf(x) ==
    CASE x.t = "str" -> x.v
      [] x.t = "num" -> IntToChars(x.v)
      [] x.t = "bool" -> IF x.v THEN <<"T","r","u","e">>
                         ELSE <<"F","a","l","s","e">>
      [] x.t = "null" -> <<"N","o","n","e">>

\* float(x) of a scalar: a number as it is, a bool as 1.0 or 0.0, a string
\* parsed (ValueError when it is no number), None a TypeError
FloatOf(x) ==
    CASE x.t = "num" -> [ok |-> TRUE, v |-> x.v]
      [] x.t = "bool" -> [ok |-> TRUE, v |-> IF x.v THEN 1 ELSE 0]
      [] x.t = "str" -> ParseFloat(x.v)
      [] OTHER -> [ok |-> FALSE, v |-> 0]

-----------------------------------------------------------------------------
(* detect_entity *)

\* An inference response: kind "raise" (the call failed with exception class
\* exc), "notext" (a response object without a text attribute) or "text".
Response(kind, e, text) == [kind |-> kind, exc |-> e, text |-> text]

\* a resolver that compares the answer as it came, neither stripped nor in
\* lower case
DetectEntityRaw(resp) ==
    LET ent == IF resp.kind = "text" THEN resp.text ELSE <<"n","o","n","e">>
    IN  IF ent = <<"n","o","n","e">>
           \/ ~ \E e \in DATA_SOURCES : EntityChars(e) = ent
        THEN NONE
        ELSE CHOOSE e \in DATA_SOURCES : EntityChars(e) = ent

\* lines 127-130: the value detect_entity returns for a response that did
\* not raise
DetectEntity(resp) ==
    LET ent == IF resp.kind = "text" THEN Lower(Strip(resp.text))
               ELSE <<"n","o","n","e">>
    IN  IF ent = <<"n","o","n","e">>
           \/ ~ \E e \in DATA_SOURCES : EntityChars(e) = ent
        THEN NONE
        ELSE CHOOSE e \in DATA_SOURCES : EntityChars(e) = ent

-----------------------------------------------------------------------------
(* extract_filters *)

\* A JSON object as json.loads builds it: its members in order, as
\* (field, cond) pairs with distinct fields.  The emptiness of a dict is
\* the emptiness of this sequence.
Pair(f, c) == [field |-> f, cond |-> c]

\* The inference response of extract_filters: kind "raise", or "text" with
\* what json.loads makes of the stripped text: "empty" (no text), "invalid"
\* (JSONDecodeError), "dict" (value is the pairs) or "other" (a list, a
\* number, a string, null).
Extraction(kind, e, parse, value) ==
    [kind |-> kind, exc |-> e, parse |-> parse, value |-> value]

\* What a call of extract_filters ends with: the dict it returns, or the
\* exception class it raises ("none": it returns).
Returns(value) == [raised |-> "none", value |-> value]
Raise(k) == [raised |-> k, value |-> <<>>]

\* an extractor that, like detect_entity, logs a failure of the inference
\* call and raises it again
ExtractFiltersReraising(resp) ==
    IF resp.kind = "raise" THEN Raise(resp.exc)
    ELSE IF resp.parse = "dict" THEN Returns(resp.value)
    ELSE Returns(<<>>)

\* lines 153-174: both except clauses log and return {}
ExtractFilters(resp) ==
    IF resp.kind = "raise" THEN Returns(<<>>)
    ELSE IF resp.parse = "empty" THEN Returns(<<>>)
    ELSE IF resp.parse = "invalid" THEN Returns(<<>>)
    ELSE IF resp.parse = "dict" THEN Returns(resp.value)
    ELSE Returns(<<>>)

-----------------------------------------------------------------------------
(* apply_filter *)

\* What a call ends with: it returns True, returns False, or raises.
RetTrue == "True"
RetFalse == "False"
Raises == "Raise"
\* inside the loop: this condition did not reject the item
Pass == "pass"

QuoteContains == <<"c","o","n","t","a","i","n","s"," ","'">>
QuoteExact == <<"e","x","a","c","t"," ","'">>

\* condition[len(prefix):-1]
Inner(condition, prefix) == SubSeq(condition, Len(prefix) + 1, Len(condition) - 1)

\* lines 181-191: a field declared 'string'.  A condition that is no str has
\* no startswith: AttributeError.
StringBranch(value, condition) ==
    IF condition.t # "str" THEN Raises
    ELSE IF StartsWith(condition.v, QuoteContains) /\ EndsWith(condition.v, <<"'">>)
    THEN IF Contains(Lower(StrOf(value)), Lower(Inner(condition.v, QuoteContains)))
         THEN Pass ELSE RetFalse
    ELSE IF StartsWith(condition.v, QuoteExact) /\ EndsWith(condition.v, <<"'">>)
    THEN IF Lower(StrOf(value)) = Lower(Inner(condition.v, QuoteExact))
         THEN Pass ELSE RetFalse
    ELSE RetFalse

\* condition.split(' ', 1): the text before the first blank and the text
\* after it, or the whole text when it holds no blank
RECURSIVE FirstBlank(_, _)
FirstBlank(s, i) ==
    IF i > Len(s) THEN 0 ELSE IF s[i] = " " THEN i ELSE FirstBlank(s, i + 1)

Split1(s) ==
    LET b == FirstBlank(s, 1)
    IN  IF b = 0 THEN <<s>>
        ELSE <<SubSeq(s, 1, b - 1), SubSeq(s, b + 1, Len(s))>>

\* lines 200-216: the operator table
Compare(op, item_value, value) ==
    IF op = <<"<">> THEN (IF item_value >= value THEN RetFalse ELSE Pass)
    ELSE IF op = <<">">> THEN (IF item_value <= value THEN RetFalse ELSE Pass)
    ELSE IF op = <<"=">> THEN (IF item_value # value THEN RetFalse ELSE Pass)
    ELSE IF op = <<"<","=">> THEN (IF item_value > value THEN RetFalse ELSE Pass)
    ELSE IF op = <<">","=">> THEN (IF item_value < value THEN RetFalse ELSE Pass)
    ELSE RetFalse

\* lines 192-218: a field declared 'number'.  A condition that is no str has
\* no split: AttributeError, which the except clause (ValueError, TypeError)
\* does not catch.
NumberBranch(value, condition) ==
    IF condition.t # "str" THEN Raises
    ELSE LET parts == Split1(condition.v)
         IN  IF Len(parts) # 2 THEN RetFalse
             ELSE IF ~ ParseFloat(parts[2]).ok THEN RetFalse
             ELSE IF ~ FloatOf(value).ok THEN RetFalse
             ELSE Compare(parts[1], FloatOf(value).v, ParseFloat(parts[2]).v)

\* a loop that rejects the item when it lacks the field
CheckConditionStrict(item, field, condition, e) ==
    IF ~ IsDict(item) THEN Raises
    ELSE IF field \notin DOMAIN item.v THEN RetFalse
    ELSE IF FieldType(e, field) = "string"
    THEN StringBranch(item.v[field], condition)
    ELSE IF FieldType(e, field) = "number"
    THEN NumberBranch(item.v[field], condition)
    ELSE Pass

\* lines 178-218: one turn of the loop.  The items of the model are objects
\* or numbers; "field not in item" on a number is a TypeError.
CheckCondition(item, field, condition, e) ==
    IF ~ IsDict(item) THEN Raises
    ELSE IF field \notin DOMAIN item.v THEN Pass
    ELSE IF FieldType(e, field) = "string"
    THEN StringBranch(item.v[field], condition)
    ELSE IF FieldType(e, field) = "number"
    THEN NumberBranch(item.v[field], condition)
    ELSE Pass

RECURSIVE ApplyFrom(_, _, _, _)
ApplyFrom(item, fs, e, i) ==
    IF i > Len(fs) THEN RetTrue
    ELSE LET r == CheckCondition(item, fs[i].field, fs[i].cond, e)
         IN  IF r = Pass THEN ApplyFrom(item, fs, e, i + 1) ELSE r

\* apply_filter(item, filters, entity)
ApplyFilter(item, fs, e) == ApplyFrom(item, fs, e, 1)

-----------------------------------------------------------------------------
(* fetch_data *)

\* What requests.get and response.json() produce: kind "status" (a non-2xx
\* status, raise_for_status raises), "transport" or "timeout" (requests.get
\* raises), "badjson" (response.json() raises) or "json" with the decoded
\* body: a list, an object or a scalar.
Fetched(kind, body) == [kind |-> kind, body |-> body]
List(items) == [t |-> "list", v |-> items]

\* all_data: None, or a list
NoData == [none |-> TRUE, list |-> <<>>]
Data(items) == [none |-> FALSE, list |-> items]

\* a fetch that answers a failed request with the empty list
FetchDataEmptyOnFailure(f) ==
    IF f.kind # "json" THEN Data(<<>>)
    ELSE IF f.body.t = "list" THEN Data(f.body.v)
    ELSE IF f.body.t = "obj" THEN Data(<<f.body>>)
    ELSE NoData

\* lines 244-263: the value fetch_data returns; it catches every exception
FetchData(f) ==
    IF f.kind # "json" THEN NoData
    ELSE IF f.body.t = "list" THEN Data(f.body.v)
    ELSE IF f.body.t = "obj" THEN Data(<<f.body>>)
    ELSE NoData

-----------------------------------------------------------------------------
(* format_filters and format_response *)

\* A text built by the formatter is a sequence of tokens: names and fixed
\* words as strings, the characters of a condition one by one.
RECURSIVE TokensLen(_)
TokensLen(ts) == IF ts = <<>> THEN 0 ELSE Len(Head(ts)) + TokensLen(Tail(ts))

\* " and ".join(f"{field} {condition}" ...) from the i-th pair on
RECURSIVE JoinConditions(_, _)
JoinConditions(fs, i) ==
    IF i > Len(fs) THEN <<>>
    ELSE (IF i > 1 THEN <<" and ">> ELSE <<>>)
         \o <<fs[i].field, " ">> \o StrOf(fs[i].cond)
         \o JoinConditions(fs, i + 1)

\* format_filters(filters)
FormatFilters(fs) ==
    IF fs = <<>> THEN <<>> ELSE <<" where ">> \o JoinConditions(fs, 1)

\* entity.capitalize()
Capitalize(e) ==
    CASE e = "sellers"    -> "Sellers"
      [] e = "warehouses" -> "Warehouses"
      [] e = "products"   -> "Products"
      [] e = "logistics"  -> "Logistics"
      [] e = "inspectors" -> "Inspectors"
      [] e = "factories"  -> "Factories"

\* lines 341-351: the items that get an entry; a non-dict item is skipped
RECURSIVE OutputItems(_)
OutputItems(data) ==
    IF data = <<>> THEN <<>>
    ELSE (IF IsDict(Head(data)) THEN <<Head(data)>> ELSE <<>>)
         \o OutputItems(Tail(data))

\* The pieces of '\n\n---\n\n'.join(output_items): the lengths of the
\* stretches of text between two occurrences of the separator.
RECURSIVE BodySegments(_)
BodySegments(items) ==
    IF items = <<>> THEN <<>> ELSE Head(items).segs \o BodySegments(Tail(items))

\* title + response_body: the title runs into the first piece of the body
Segments(titleLen, items) ==
    LET body == BodySegments(items)
    IN  IF body = <<>> THEN <<titleLen>>
        ELSE <<titleLen + Head(body)>> \o Tail(body)

\* A response text: what it says (kind, tokens, count, items) and the
\* lengths of its pieces (segs).
Text(kind, tokens, count, items, segs) ==
    [kind |-> kind, tokens |-> tokens, count |-> count, items |-> items,
     segs |-> segs]
NoText == Text("unset", <<>>, 0, <<>>, <<0>>)

\* format_response(data, entity, filters)
FormatResponse(data, e, fs) ==
    IF data = <<>>
    THEN LET tokens == IF fs # <<>>
                       THEN <<"No ", e, " found matching">> \o FormatFilters(fs)
                            \o <<".">>
                       ELSE <<"No ", e, " found.">>
         IN  Text("none", tokens, 0, <<>>, <<NONE_ICON_LEN + TokensLen(tokens)>>)
    ELSE LET items == OutputItems(data)
             tokens == <<"Found ">> \o IntToChars(Len(items))
                       \o <<" ", Capitalize(e)>>
                       \o (IF fs # <<>> THEN FormatFilters(fs) ELSE <<>>)
             titleLen == TITLE_ICON_LEN + TokensLen(tokens) + TITLE_SUFFIX_LEN
         IN  Text("found", tokens, Len(items), items, Segments(titleLen, items))

-----------------------------------------------------------------------------
(* the truncation of handle_message, lines 408-417 *)

RECURSIVE SumSeq(_)
SumSeq(s) == IF s = <<>> THEN 0 ELSE Head(s) + SumSeq(Tail(s))

\* len(text)
TextLen(segs) == SumSeq(segs) + SEP_LEN * (Len(segs) - 1)

\* the index at which the i-th separator of the text starts
SepStart(segs, i) == SumSeq(SubSeq(segs, 1, i)) + SEP_LEN * (i - 1)

\* text.rfind(separator, 0, end): the highest index at which the separator
\* starts and lies within text[0:end], or -1
RECURSIVE RFindFrom(_, _, _)
RFindFrom(segs, end, i) ==
    IF i < 1 THEN -1
    ELSE IF SepStart(segs, i) + SEP_LEN <= end THEN SepStart(segs, i)
    ELSE RFindFrom(segs, end, i - 1)

\* a search that accepts a separator starting at or before end
RFindStartingBefore(segs, end) ==
    RFindFrom(segs, end + SEP_LEN, Len(segs) - 1)

RFind(segs, end) == RFindFrom(segs, end, Len(segs) - 1)

\* a cut at the raw limit, without the margin
TruncPointNoMargin(segs) ==
    LET trunc_point == RFind(segs, MAX_LEN)
    IN  IF trunc_point = -1 THEN MAX_LEN ELSE trunc_point

\* lines 410-412
TruncPoint(segs) ==
    LET trunc_point == RFind(segs, MAX_LEN - MARGIN)
    IN  IF trunc_point = -1 THEN MAX_LEN - MARGIN ELSE trunc_point

-----------------------------------------------------------------------------
(* generate_conversational_response *)

\* lines 229-238: the reply it returns; it catches every exception
GenerateConversationalResponse(resp) ==
    IF resp.kind = "text" THEN "llm"
    ELSE IF resp.kind = "notext" THEN "hey"
    ELSE IF resp.exc = "GoogleAPIError" THEN "oops"
    ELSE "tangled"

-----------------------------------------------------------------------------
(* What the collaborators can hand to the handler *)

\* the exception classes the except clauses of handle_message tell apart
ExcKinds == {"GoogleAPIError", "RequestException", "ValueError", "Exception"}

Failures == {Response("raise", k, <<>>) : k \in ExcKinds}

AnswerTexts ==
    { <<"p","r","o","d","u","c","t","s">>,
      <<" ","I","n","s","p","e","c","t","o","r","s","\n">>,
      <<"n","o","n","e">>,
      <<"N","o","n","e"," ">>,
      <<"w","i","d","g","e","t","s">>,
      <<>> }

\* the inference responses detect_entity can get
Answers ==
    Failures \cup {Response("notext", "none", <<>>)}
    \cup {Response("text", "none", t) : t \in AnswerTexts}

\* the inference responses generate_conversational_response can get
ChatAnswers ==
    Failures \cup {Response("notext", "none", <<>>),
                   Response("text", "none", <<"h","i">>)}

ItemA == Obj([product_name |-> Str(<<"A","b">>), product_price |-> Num(49)],
             <<200>>)
ItemB == Obj([product_name |-> Str(<<"b">>), product_price |-> Num(50)],
             <<210>>)
ItemC == Obj([product_price |-> Str(<<"5","1">>), color |-> Str(<<"a">>)],
             <<190>>)
ItemD == Obj([product_name |-> Str(<<"a","b">>), product_price |-> Null],
             <<205>>)
Pool == {ItemA, ItemC}

\* a product priced p whose entry renders to the pieces segs
Product(p, segs) ==
    Obj([product_name |-> Str(<<"x">>), product_price |-> Num(p)], segs)

\* ten products, three of them priced below 50
TenProducts ==
    << Product(10, <<200>>), Product(60, <<200>>), Product(20, <<200>>),
       Product(50, <<200>>), Product(70, <<200>>), Product(49, <<200>>),
       Product(51, <<200>>), Product(80, <<200>>), Product(90, <<200>>),
       Product(100, <<200>>) >>

\* lists whose text comes to lie around MAX_LEN and MAX_LEN - MARGIN
LongLists ==
    { <<Product(10, <<4043>>), ItemA>>,
      <<Product(10, <<4044>>), ItemA>>,
      <<Product(10, <<4050>>), ItemA>>,
      <<Product(10, <<4051>>), ItemA>>,
      <<Product(10, <<5000>>)>>,
      <<Product(10, <<4070>>)>>,
      <<Product(10, <<4071>>)>>,
      <<Product(10, <<2000>>), Product(20, <<2000>>), Product(30, <<2000>>)>>,
      <<Product(10, <<3000, 1500>>), ItemA>> }

SmallLists == UNION {[1..n -> Pool] : n \in 0..MaxRecords}

\* the decoded bodies: arrays of objects, an array holding a number among
\* its elements, a single object, scalars
Bodies ==
    {List(l) : l \in SmallLists \cup LongLists
                     \cup {TenProducts, <<ItemD, ItemB>>,
                           <<Num(7), ItemA>>, <<ItemA, Num(7)>>}}
    \cup {ItemB, Num(5), Null}

\* what the HTTP request of fetch_data can produce
FetchOutcomes ==
    {Fetched(k, Null) : k \in {"status", "transport", "timeout", "badjson"}}
    \cup {Fetched("json", b) : b \in Bodies}

PriceConds ==
    { Str(<<"<","5","0">>), Str(<<"<"," ","5","0">>),
      Str(<<">","="," ","5","0">>), Str(<<">"," ","4","9">>),
      Str(<<"="," ","5","0">>), Str(<<"<","="," ","4","9">>),
      Str(<<"<"," ","x">>), Str(<<"!","="," ","5","0">>), Num(50) }
NameConds ==
    { Str(<<"c","o","n","t","a","i","n","s"," ","'","A","'">>),
      Str(<<"e","x","a","c","t"," ","'","a","B","'">>),
      Str(<<"a","p","p","l","e">>), Null }
ColorConds == { Str(<<"<"," ","5","0">>) }

CondPairs ==
    {Pair("product_price", c) : c \in PriceConds}
    \cup {Pair("product_name", c) : c \in NameConds}
    \cup {Pair("color", c) : c \in ColorConds}

\* the JSON objects the extractor's answer can decode to: up to MaxConds
\* members with distinct keys, in any order
FilterSets ==
    UNION {{fs \in [1..n -> CondPairs] :
               \A i, j \in 1..n : i # j => fs[i].field # fs[j].field}
           : n \in 0..MaxConds}

\* the inference responses extract_filters can get
Extractions ==
    {Extraction("raise", k, "none", <<>>) : k \in ExcKinds}
    \cup {Extraction("text", "none", p, <<>>) : p \in {"empty", "invalid", "other"}}
    \cup {Extraction("text", "none", "dict", fs) : fs \in FilterSets}

\* what a reply_text call can end with: "ok", or an exception class
SendOutcomes == {"ok"} \cup ExcKinds

-----------------------------------------------------------------------------
(* handle_message *)

\* An outgoing message: which reply it is, the entity it names, the chat
\* reply it carries, where the text was cut (-1: not cut), the text.
Msg(kind, e, body, cut, text) ==
    [kind |-> kind, entity |-> e, body |-> body, cut |-> cut, text |-> text]

Counters == [resolve |-> 0, chat |-> 0, fetch |-> 0, extract |-> 0,
             apply |-> 0, format |-> 0]

Init ==
    /\ pc = "idle"
    /\ hasText = FALSE
    /\ typing = "none"
    /\ answer = Response("none", "none", <<>>)
    /\ entity = UNBOUND
    /\ fetched = Fetched("none", Null)
    /\ all_data = NoData
    /\ extracted = Extraction("none", "none", "none", <<>>)
    /\ filters = <<>>
    /\ evalTrace = <<>>
    /\ filtered_data = <<>>
    /\ response_text = NoText
    /\ conversational_response = "none"
    /\ exc = "none"
    /\ sent = <<>>
    /\ calls = Counters

\* await update.message.reply_text(msg): the call is recorded with its
\* outcome; an exception it raises is in flight in the try block
Reply(msg, outcome, next) ==
    /\ sent' = Append(sent, [msg |-> msg, ok |-> outcome = "ok"])
    /\ IF outcome = "ok"
       THEN pc' = next /\ exc' = exc
       ELSE pc' = "except" /\ exc' = outcome

\* lines 384-387: a message arrives; without text the handler returns
Receive ==
    /\ pc = "idle"
    /\ \E t \in BOOLEAN :
         /\ hasText' = t
         /\ pc' = IF t THEN "typing" ELSE "done"
    /\ UNCHANGED <<typing, answer, entity, fetched, all_data, extracted,
                   filters, evalTrace, filtered_data, response_text,
                   conversational_response, exc, sent, calls>>

\* lines 388-391: the typing indicator; its failure is logged and dropped
SendChatAction ==
    /\ pc = "typing"
    /\ \E o \in {"ok", "failed"} : typing' = o
    /\ pc' = "resolving"
    /\ UNCHANGED <<hasText, answer, entity, fetched, all_data, extracted,
                   filters, evalTrace, filtered_data, response_text,
                   conversational_response, exc, sent, calls>>

\* line 393 with detect_entity (lines 125-136): an exception of the inference
\* call is logged and raised again, and entity is not assigned
Resolve ==
    /\ pc = "resolving"
    /\ \E a \in Answers :
         /\ answer' = a
         /\ IF a.kind = "raise"
            THEN /\ exc' = a.exc
                 /\ pc' = "except"
                 /\ entity' = entity
            ELSE /\ exc' = exc
                 /\ entity' = DetectEntity(a)
                 /\ pc' = IF DetectEntity(a) = NONE THEN "chatting"
                          ELSE "fetching"
    /\ calls' = [calls EXCEPT !.resolve = @ + 1]
    /\ UNCHANGED <<hasText, typing, fetched, all_data, extracted, filters,
                   evalTrace, filtered_data, response_text,
                   conversational_response, sent>>

\* line 395
Chat ==
    /\ pc = "chatting"
    /\ \E a \in ChatAnswers :
         conversational_response' = GenerateConversationalResponse(a)
    /\ calls' = [calls EXCEPT !.chat = @ + 1]
    /\ pc' = "send_chat"
    /\ UNCHANGED <<hasText, typing, answer, entity, fetched, all_data,
                   extracted, filters, evalTrace, filtered_data,
                   response_text, exc, sent>>

\* lines 396-397
ReplyChat ==
    /\ pc = "send_chat"
    /\ \E o \in SendOutcomes :
         Reply(Msg("chat", NONE, conversational_response, -1, NoText), o, "done")
    /\ UNCHANGED <<hasText, typing, answer, entity, fetched, all_data,
                   extracted, filters, evalTrace, filtered_data,
                   response_text, conversational_response, calls>>

\* lines 398-399
Fetch ==
    /\ pc = "fetching"
    /\ \E f \in FetchOutcomes :
         /\ fetched' = f
         /\ all_data' = FetchData(f)
         /\ pc' = IF FetchData(f).none THEN "fetch_failed" ELSE "extracting"
    /\ calls' = [calls EXCEPT !.fetch = @ + 1]
    /\ UNCHANGED <<hasText, typing, answer, entity, extracted, filters,
                   evalTrace, filtered_data, response_text,
                   conversational_response, exc, sent>>

\* lines 400-401
ReplyFetchError ==
    /\ pc = "fetch_failed"
    /\ \E o \in SendOutcomes :
         Reply(Msg("fetch_error", entity, "none", -1, NoText), o, "done")
    /\ UNCHANGED <<hasText, typing, answer, entity, fetched, all_data,
                   extracted, filters, evalTrace, filtered_data,
                   response_text, conversational_response, calls>>

\* line 402
Extract ==
    /\ pc = "extracting"
    /\ \E x \in Extractions :
         /\ extracted' = x
         /\ IF ExtractFilters(x).raised = "none"
            THEN /\ filters' = ExtractFilters(x).value
                 /\ pc' = "evaluating"
                 /\ exc' = exc
            ELSE /\ filters' = filters
                 /\ pc' = "except"
                 /\ exc' = ExtractFilters(x).raised
    /\ calls' = [calls EXCEPT !.extract = @ + 1]
    /\ UNCHANGED <<hasText, typing, answer, entity, fetched, all_data,
                   evalTrace, filtered_data, response_text,
                   conversational_response, sent>>

\* the results of apply_filter over the items in order, up to and including
\* the first call that raises
RECURSIVE Verdicts(_, _, _)
Verdicts(data, fs, e) ==
    IF data = <<>> THEN <<>>
    ELSE LET r == ApplyFilter(Head(data), fs, e)
         IN  IF r = Raises THEN <<r>> ELSE <<r>> \o Verdicts(Tail(data), fs, e)

\* [item for item in all_data if apply_filter(item, filters, entity)]
Kept(data, verdicts) ==
    LET idx == {i \in 1..Len(verdicts) : verdicts[i] = RetTrue}
        F[i \in 0..Len(verdicts)] ==
            IF i = 0 THEN <<>>
            ELSE IF i \in idx THEN Append(F[i - 1], data[i]) ELSE F[i - 1]
    IN  F[Len(verdicts)]

\* lines 403-406: an exception of apply_filter leaves the comprehension
Evaluate ==
    /\ pc = "evaluating"
    /\ IF filters # <<>>
       THEN LET v == Verdicts(all_data.list, filters, entity)
            IN  /\ evalTrace' = v
                /\ calls' = [calls EXCEPT !.apply = @ + Len(v)]
                /\ IF v # <<>> /\ v[Len(v)] = Raises
                   THEN /\ exc' = "Exception"
                        /\ pc' = "except"
                        /\ filtered_data' = filtered_data
                   ELSE /\ exc' = exc
                        /\ pc' = "formatting"
                        /\ filtered_data' = Kept(all_data.list, v)
       ELSE /\ filtered_data' = all_data.list
            /\ pc' = "formatting"
            /\ UNCHANGED <<evalTrace, calls, exc>>
    /\ UNCHANGED <<hasText, typing, answer, entity, fetched, all_data,
                   extracted, filters, response_text,
                   conversational_response, sent>>

\* line 407
Format ==
    /\ pc = "formatting"
    /\ response_text' = FormatResponse(filtered_data, entity, filters)
    /\ calls' = [calls EXCEPT !.format = @ + 1]
    /\ pc' = "replying"
    /\ UNCHANGED <<hasText, typing, answer, entity, fetched, all_data,
                   extracted, filters, evalTrace, filtered_data,
                   conversational_response, exc, sent>>

\* lines 416-417: the text fits
ReplyResult ==
    /\ pc = "replying"
    /\ ~ (TextLen(response_text.segs) > MAX_LEN)
    /\ \E o \in SendOutcomes :
         Reply(Msg("result", entity, "none", -1, response_text), o, "done")
    /\ UNCHANGED <<hasText, typing, answer, entity, fetched, all_data,
                   extracted, filters, evalTrace, filtered_data,
                   response_text, conversational_response, calls>>

\* lines 409-414: the text is cut and the marker appended
ReplyTruncated ==
    /\ pc = "replying"
    /\ TextLen(response_text.segs) > MAX_LEN
    /\ \E o \in SendOutcomes :
         Reply(Msg("truncated", entity, "none",
                   TruncPoint(response_text.segs), response_text), o, "notice")
    /\ UNCHANGED <<hasText, typing, answer, entity, fetched, all_data,
                   extracted, filters, evalTrace, filtered_data,
                   response_text, conversational_response, calls>>

\* line 415
ReplyNotice ==
    /\ pc = "notice"
    /\ \E o \in SendOutcomes :
         Reply(Msg("notice", entity, "none", -1, NoText), o, "done")
    /\ UNCHANGED <<hasText, typing, answer, entity, fetched, all_data,
                   extracted, filters, evalTrace, filtered_data,
                   response_text, conversational_response, calls>>

\* The reply of the except clause that catches an exception of class k.
\* The clause for RequestException reads entity before it replies (line
\* 422): with entity unassigned that is an UnboundLocalError and no reply.
HandlerReply(k, e) ==
    IF k = "GoogleAPIError" THEN Msg("error_ai", NONE, "none", -1, NoText)
    ELSE IF k = "RequestException" THEN Msg("error_source", e, "none", -1, NoText)
    ELSE IF k = "ValueError" THEN Msg("error_value", NONE, "none", -1, NoText)
    ELSE Msg("error_generic", NONE, "none", -1, NoText)

HandlerReplies(k, e) == k # "RequestException" \/ e # UNBOUND

\* lines 418-430: the except clauses.  An exception raised inside a clause,
\* by its own code or by its reply_text, leaves handle_message.
HandleException ==
    /\ pc = "except"
    /\ IF HandlerReplies(exc, entity)
       THEN \E o \in SendOutcomes :
              /\ sent' = Append(sent, [msg |-> HandlerReply(exc, entity),
                                       ok |-> o = "ok"])
              /\ pc' = IF o = "ok" THEN "done" ELSE "crashed"
       ELSE /\ sent' = sent
            /\ pc' = "crashed"
    /\ exc' = "none"
    /\ UNCHANGED <<hasText, typing, answer, entity, fetched, all_data,
                   extracted, filters, evalTrace, filtered_data,
                   response_text, conversational_response, calls>>

\* lines 436-437: the dispatcher hands the next update to a fresh call
NextUpdate ==
    /\ pc \in {"done", "crashed"}
    /\ pc' = "idle"
    /\ hasText' = FALSE
    /\ typing' = "none"
    /\ answer' = Response("none", "none", <<>>)
    /\ entity' = UNBOUND
    /\ fetched' = Fetched("none", Null)
    /\ all_data' = NoData
    /\ extracted' = Extraction("none", "none", "none", <<>>)
    /\ filters' = <<>>
    /\ evalTrace' = <<>>
    /\ filtered_data' = <<>>
    /\ response_text' = NoText
    /\ conversational_response' = "none"
    /\ exc' = "none"
    /\ sent' = <<>>
    /\ calls' = Counters

Next ==
    \/ Receive
    \/ SendChatAction
    \/ Resolve
    \/ Chat
    \/ ReplyChat
    \/ Fetch
    \/ ReplyFetchError
    \/ Extract
    \/ Evaluate
    \/ Format
    \/ ReplyResult
    \/ ReplyTruncated
    \/ ReplyNotice
    \/ HandleException
    \/ NextUpdate

Spec == Init /\ [][Next]_vars

\* the handler has returned, or an exception has left it
Ended == pc \in {"done", "crashed"}

-----------------------------------------------------------------------------
(* Properties *)

\* the replies of the result path, and the replies of the except clauses
ResultKinds == {"result", "truncated"}
ErrorKinds == {"error_ai", "error_source", "error_value", "error_generic"}

\* len of an outgoing result: the whole text, or text[:cut] and the marker
Min(a, b) == IF a < b THEN a ELSE b
MsgLen(m) ==
    IF m.kind = "truncated"
    THEN Min(m.cut, TextLen(m.text.segs)) + MARKER_LEN
    ELSE TextLen(m.text.segs)

\* C1: for every incoming text message, whatever the outcomes of the typing
\* indicator, the stages and the reply sends, handle_message ends having
\* sent exactly one or exactly two outgoing messages, and it invokes none of
\* the stages resolve, fetch, extract and chat more than once.
C1_OneOrTwoRepliesNoRetry ==
    (Ended /\ hasText) =>
        /\ Len(sent) \in {1, 2}
        /\ calls.resolve <= 1
        /\ calls.fetch <= 1
        /\ calls.extract <= 1
        /\ calls.chat <= 1

\* the filter object {"product_price": "<50"}
PriceUnderFifty == <<Pair("product_price", Str(<<"<","5","0">>))>>

\* C2: when the query resolves to products, the extractor returns
\* {"product_price": "<50"} and the fetch returns the ten products, three of
\* them priced below 50, the formatted response is the title "Found 3
\* Products where product_price <50" followed by the entries of exactly
\* those three products.
C2_FoundThreeProductsUnderFifty ==
    ( /\ pc = "replying"
      /\ entity = "products"
      /\ fetched = Fetched("json", List(TenProducts))
      /\ extracted = Extraction("text", "none", "dict", PriceUnderFifty) )
    => /\ response_text.kind = "found"
       /\ response_text.tokens =
            <<"Found ", "3", " ", "Products", " where ", "product_price",
              " ", "<", "5", "0">>
       /\ response_text.items =
            <<Product(10, <<200>>), Product(20, <<200>>), Product(49, <<200>>)>>

\* C3: every reply sent on the result path, the whole response or the cut
\* text with its marker, is at most MAX_LEN characters long.
C3_ResultRepliesFitMaxLen ==
    \A i \in 1..Len(sent) :
        sent[i].msg.kind \in ResultKinds => MsgLen(sent[i].msg) <= MAX_LEN

\* C3 witness: a response longer than MAX_LEN without a separator in range
\* was cut at MAX_LEN - MARGIN and sent with the marker, and on another
\* path a response of exactly MAX_LEN characters was sent whole.
C3_Witness ==
    \E i \in 1..Len(sent) :
        /\ sent[i].msg.kind = "truncated"
        /\ TextLen(sent[i].msg.text.segs) > MAX_LEN
        /\ MsgLen(sent[i].msg) = MAX_LEN - MARGIN + MARKER_LEN
        /\ sent[i].ok

\* the inference answer of detect_entity, read as the prompt asks: it names
\* no entity when it carries no text, or when its text, stripped and in
\* lower case, is "none" or is not a key of DATA_SOURCES
AnswerNamesNoEntity ==
    /\ answer.kind \in {"text", "notext"}
    /\ \/ answer.kind = "notext"
       \/ ~ \E e \in DATA_SOURCES : EntityChars(e) = Lower(Strip(answer.text))

NoDataWork == calls.fetch = 0 /\ calls.extract = 0 /\ calls.apply = 0
              /\ calls.format = 0

\* C4 as stated: whenever resolution returns None the handler invokes the
\* conversation fallback and sends its reply as the single outgoing message,
\* with no fetch, extraction or formatting; and the fallback is invoked only
\* after resolution returned None.
C4_ChatReplyIsTheSingleMessage ==
    /\ (AnswerNamesNoEntity /\ Ended) =>
          /\ calls.chat = 1
          /\ Len(sent) = 1
          /\ sent[1].msg = Msg("chat", NONE, conversational_response, -1, NoText)
          /\ NoDataWork
    /\ calls.chat > 0 => AnswerNamesNoEntity

\* C4, amended: whenever resolution returns None the handler invokes the
\* conversation fallback once and issues its reply as the first outgoing
\* message, with no fetch, extraction or formatting.  That reply is the single
\* outgoing message when its send succeeds; when its send fails, exactly one
\* error reply is attempted after it.  The fallback is invoked only after
\* resolution returned None.
C4_ChatReplyFirstAndSingleIfSent ==
    /\ AnswerNamesNoEntity =>
          /\ entity = NONE
          /\ NoDataWork
          /\ Ended =>
                /\ calls.chat = 1
                /\ Len(sent) >= 1
                /\ sent[1].msg = Msg("chat", NONE, conversational_response,
                                     -1, NoText)
                /\ conversational_response \in {"llm", "hey", "oops", "tangled"}
                /\ sent[1].ok => Len(sent) = 1
                /\ ~ sent[1].ok =>
                      Len(sent) = 2 /\ sent[2].msg.kind \in ErrorKinds
    /\ calls.chat > 0 => AnswerNamesNoEntity /\ entity = NONE

\* C4 witness: the answer "widgets" named no entity, the fallback's reply
\* went out as the only message and nothing was fetched.
C4_Witness ==
    /\ Ended
    /\ answer = Response("text", "none", <<"w","i","d","g","e","t","s">>)
    /\ calls.chat = 1
    /\ sent = <<[msg |-> Msg("chat", NONE, "llm", -1, NoText), ok |-> TRUE]>>

\* the request of fetch_data failed: a non-2xx status, a transport failure,
\* a timeout, a body that is no JSON, or a body that is neither an array nor
\* an object
FetchFails ==
    \/ fetched.kind \in {"status", "transport", "timeout", "badjson"}
    \/ fetched.kind = "json" /\ fetched.body.t \notin {"list", "obj"}

\* how many of the replies issued so far are of the given kind
CountKind(k) == Cardinality({i \in 1..Len(sent) : sent[i].msg.kind = k})

\* C5: whenever the fetch for a resolved entity fails, the handler sends
\* exactly one fetch-error reply, which names the resolved entity, and
\* neither the filter extractor nor the evaluator nor the formatter is
\* invoked for that message.
C5_FetchFailureRepliesOnce ==
    FetchFails =>
        /\ calls.extract = 0 /\ calls.apply = 0 /\ calls.format = 0
        /\ CountKind("result") = 0 /\ CountKind("truncated") = 0
        /\ pc \notin {"extracting", "evaluating", "formatting", "replying",
                      "notice"}
        /\ Ended =>
              /\ CountKind("fetch_error") = 1
              /\ sent[1].msg.kind = "fetch_error"
              /\ sent[1].msg.entity = entity
              /\ entity \in DATA_SOURCES
              /\ sent[1].ok => Len(sent) = 1

\* C5 witness: the data source answered with an error status and the
\* fetch-error reply naming products went out.
C5_Witness ==
    /\ Ended
    /\ fetched.kind = "status"
    /\ sent = <<[msg |-> Msg("fetch_error", "products", "none", -1, NoText),
                 ok |-> TRUE]>>

\* C6: a hard failure of the inference call during entity resolution
\* propagates to handle_message, which ends having sent an error reply that
\* is not the fetch-failed reply, without invoking the conversation fallback,
\* the fetch, the extractor or the formatter.
C6_ResolutionFailureEndsInErrorReply ==
    answer.kind = "raise" =>
        /\ entity = UNBOUND
        /\ calls.chat = 0
        /\ NoDataWork
        /\ Ended =>
              /\ Len(sent) = 1
              /\ sent[1].msg.kind \in ErrorKinds
              /\ sent[1].msg.kind # "fetch_error"

\* the answer of the extractor is of no use: the inference call failed, or
\* its text is empty, is no JSON, or decodes to something that is no object
ExtractionUnusable ==
    \/ extracted.kind = "raise"
    \/ extracted.kind = "text" /\ extracted.parse \in {"empty", "invalid", "other"}

\* how many elements of a list are objects
RECURSIVE CountDicts(_)
CountDicts(data) ==
    IF data = <<>> THEN 0
    ELSE (IF IsDict(Head(data)) THEN 1 ELSE 0) + CountDicts(Tail(data))

\* C7: extract_filters never raises.  When the inference call fails, or its
\* output is empty, is not valid JSON, or decodes to something other than an
\* object, it returns the empty filter set, and the pipeline goes on to
\* formatting with every fetched record kept.
C7_ExtractorFailsToEmpty ==
    /\ (calls.extract = 1 /\ calls.apply = 0 /\ sent = <<>>) => exc = "none"
    /\ ExtractionUnusable =>
          /\ filters = <<>>
          /\ calls.apply = 0
          /\ pc \notin {"evaluating"} => filtered_data = all_data.list
          /\ pc \notin {"evaluating", "formatting"} =>
                /\ calls.format = 1
                /\ response_text.kind =
                      (IF all_data.list = <<>> THEN "none" ELSE "found")
                /\ response_text.count = CountDicts(all_data.list)
                /\ pc # "replying" => Len(sent) >= 1
                /\ Len(sent) >= 1 =>
                      /\ sent[1].msg.kind \in ResultKinds
                      /\ sent[1].msg.text = response_text

\* C7 witness: the extractor's text was no JSON, and the response lists both
\* fetched records.
C7_Witness ==
    /\ Ended
    /\ extracted = Extraction("text", "none", "invalid", <<>>)
    /\ all_data = Data(<<ItemA, ItemC>>)
    /\ response_text.kind = "found"
    /\ response_text.items = <<ItemA, ItemC>>
    /\ Len(sent) = 1 /\ sent[1].ok /\ sent[1].msg.kind = "result"

\* A condition read by the grammar of the extractor: is it true of a value?
\* For a string field, contains '<text>' or exact '<text>', compared without
\* regard to case.  For a number field, an operator, one blank and a number,
\* with the value itself a number.  Anything else is true of no value.
HoldsOfString(value, cond) ==
    /\ cond.t = "str"
    /\ LET c == cond.v
           n == Len(c)
           text == Lower(StrOf(value))
       IN  /\ n >= 1 /\ c[n] = "'"
           /\ \/ /\ n >= 10 /\ SubSeq(c, 1, 10) = QuoteContains
                 /\ Contains(text, Lower(SubSeq(c, 11, n - 1)))
              \/ /\ ~ (n >= 10 /\ SubSeq(c, 1, 10) = QuoteContains)
                 /\ n >= 7 /\ SubSeq(c, 1, 7) = QuoteExact
                 /\ text = Lower(SubSeq(c, 8, n - 1))

HoldsOfNumber(value, cond) ==
    /\ cond.t = "str"
    /\ \E b \in 1..Len(cond.v) :
          /\ cond.v[b] = " "
          /\ \A j \in 1..(b - 1) : cond.v[j] # " "
          /\ LET op == SubSeq(cond.v, 1, b - 1)
                 operand == ParseFloat(SubSeq(cond.v, b + 1, Len(cond.v)))
                 x == FloatOf(value)
             IN  /\ operand.ok /\ x.ok
                 /\ \/ op = <<"<">> /\ x.v < operand.v
                    \/ op = <<">">> /\ x.v > operand.v
                    \/ op = <<"=">> /\ x.v = operand.v
                    \/ op = <<"<","=">> /\ x.v <= operand.v
                    \/ op = <<">","=">> /\ x.v >= operand.v

\* the conditions that count for a record: those whose field the record has
\* and the entity's schema declares
Counts(item, field, e) ==
    field \in DOMAIN item.v /\ field \in DOMAIN FIELD_TYPES[e]

Satisfied(item, field, cond, e) ==
    IF FIELD_TYPES[e][field] = "string" THEN HoldsOfString(item.v[field], cond)
    ELSE HoldsOfNumber(item.v[field], cond)

\* C8: for every record, filter set and known entity, apply_filter returns
\* true iff every condition whose field is present in the record and declared
\* in the entity's schema is satisfied; conditions on fields the record lacks
\* or the schema does not declare are skipped, so a record with none of the
\* fields named in the filter set always matches.
C8_ApplyFilterIsConjunction ==
    \A i \in 1..Len(evalTrace) :
        LET item == all_data.list[i] IN
        IsDict(item) =>
            /\ entity \in DATA_SOURCES
            /\ evalTrace[i] = RetTrue <=>
                  \A k \in 1..Len(filters) :
                      Counts(item, filters[k].field, entity) =>
                          Satisfied(item, filters[k].field, filters[k].cond, entity)
            /\ (\A k \in 1..Len(filters) : filters[k].field \notin DOMAIN item.v)
                  => evalTrace[i] = RetTrue

\* C8 witness: two conditions, on product_name and on product_price.  The
\* record that has both fields fails the first and is dropped; the record
\* that lacks product_name has that condition skipped, satisfies the other
\* and is kept.
C8_Witness ==
    /\ entity = "products"
    /\ filters = <<Pair("product_name", Str(<<"a","p","p","l","e">>)),
                   Pair("product_price", Str(<<">","="," ","5","0">>))>>
    /\ all_data = Data(<<ItemA, ItemC>>)
    /\ evalTrace = <<RetFalse, RetTrue>>
    /\ filtered_data = <<ItemC>>

\* C9: for any JSON object the extractor returns, also one whose condition
\* values fail the grammar or are no strings, evaluating a record that has
\* the field yields "no match" as a boolean; the evaluation never raises and
\* the pipeline ends in the formatted reply, not in an error reply.
C9_BadConditionIsNoMatch ==
    (extracted.kind = "text" /\ extracted.parse = "dict") =>
        /\ \A i \in 1..Len(evalTrace) :
              LET item == all_data.list[i] IN
              /\ evalTrace[i] \in {RetTrue, RetFalse}
              /\ (IsDict(item) /\ \E k \in 1..Len(filters) :
                      /\ Counts(item, filters[k].field, entity)
                      /\ filters[k].cond.t # "str")
                   => evalTrace[i] = RetFalse
        /\ Ended => sent[1].msg.kind \in ResultKinds

\* the indices at which the separator starts in a text
SepStarts(segs) == {SepStart(segs, i) : i \in 1..(Len(segs) - 1)}

Max(S) == CHOOSE x \in S : \A y \in S : y <= x

\* the cut the claim describes: the last separator located at or before the
\* limit, or the limit when there is none
CutAtOrBefore(segs, limit) ==
    LET S == {p \in SepStarts(segs) : p <= limit}
    IN  IF S = {} THEN limit ELSE Max(S)

\* the cut the code makes: the last separator that ends at or before the
\* limit, or the limit when there is none
CutEndingBefore(segs, limit) ==
    LET S == {p \in SepStarts(segs) : p + SEP_LEN <= limit}
    IN  IF S = {} THEN limit ELSE Max(S)

\* C10 as stated: a response longer than MAX_LEN is cut at the last record
\* separator located at or before MAX_LEN - MARGIN, or at MAX_LEN - MARGIN
\* when there is none; the cut text gets the marker and is always followed by
\* the "shortened" notice; a response not longer than MAX_LEN is sent
\* unchanged as a single reply.
C10_CutAtLastSeparatorUpToLimit ==
    /\ pc \in {"notice", "done", "crashed"} /\ response_text.kind # "unset"
         => sent[1].msg.kind \in ResultKinds
    /\ \A i \in 1..Len(sent) :
          LET m == sent[i].msg IN
          /\ m.kind \in ResultKinds =>
                /\ m.text = response_text
                /\ m.kind = "truncated" <=> TextLen(m.text.segs) > MAX_LEN
          /\ m.kind = "truncated" =>
                /\ m.cut = CutAtOrBefore(m.text.segs, MAX_LEN - MARGIN)
                /\ MsgLen(m) = m.cut + MARKER_LEN
                /\ Ended => Len(sent) > i
                /\ Len(sent) > i => sent[i + 1].msg.kind = "notice"
          /\ m.kind = "result" =>
                /\ m.cut = -1
                /\ Ended => Len(sent) = 1

\* C10, amended: a response longer than MAX_LEN is cut at the last
\* occurrence of the separator that lies wholly within its first
\* MAX_LEN - MARGIN characters (it starts at or before MAX_LEN - MARGIN -
\* SEP_LEN), or at MAX_LEN - MARGIN when there is none; the cut text gets the
\* marker and, when its send succeeds, is followed by the "shortened" notice;
\* a response not longer than MAX_LEN is sent unchanged, as the single reply
\* when its send succeeds.  A send that fails is followed by one error reply
\* instead.
C10_CutAtLastSeparatorWithinLimit ==
    /\ pc \in {"notice", "done", "crashed"} /\ response_text.kind # "unset"
         => sent[1].msg.kind \in ResultKinds
    /\ \A i \in 1..Len(sent) :
          LET m == sent[i].msg IN
          /\ m.kind \in ResultKinds =>
                /\ i = 1
                /\ m.text = response_text
                /\ m.kind = "truncated" <=> TextLen(m.text.segs) > MAX_LEN
                /\ (~ sent[i].ok /\ Ended) =>
                      Len(sent) = 2 /\ sent[2].msg.kind \in ErrorKinds
          /\ m.kind = "truncated" =>
                /\ m.cut = CutEndingBefore(m.text.segs, MAX_LEN - MARGIN)
                /\ MsgLen(m) = m.cut + MARKER_LEN
                /\ sent[i].ok =>
                      /\ Ended => Len(sent) > i
                      /\ Len(sent) > i => sent[i + 1].msg.kind = "notice"
          /\ m.kind = "result" =>
                /\ m.cut = -1
                /\ (sent[i].ok /\ Ended) => Len(sent) = 1

\* C10 witness: a separator starts after MAX_LEN - MARGIN - SEP_LEN and at or
\* before MAX_LEN - MARGIN; the text was cut at MAX_LEN - MARGIN, sent, and
\* followed by the notice.
C10_Witness ==
    /\ Ended
    /\ Len(sent) = 2
    /\ sent[1].msg.kind = "truncated" /\ sent[1].ok
    /\ \E p \in SepStarts(sent[1].msg.text.segs) :
          p <= MAX_LEN - MARGIN /\ p + SEP_LEN > MAX_LEN - MARGIN
    /\ sent[1].msg.cut = MAX_LEN - MARGIN
    /\ sent[2].msg.kind = "notice" /\ sent[2].ok

\* the body is a JSON array whose elements are all objects, or one object
BodyIsRecords ==
    /\ fetched.kind = "json"
    /\ \/ fetched.body.t = "obj"
       \/ /\ fetched.body.t = "list"
          /\ \A i \in 1..Len(fetched.body.v) : IsDict(fetched.body.v[i])

\* C11: fetch_data returns a record sequence only when the body is a JSON
\* array of objects (returned as it is) or a single JSON object (wrapped as a
\* one-element sequence); for every other body, a scalar or an array holding
\* non-object elements among them, and for every non-2xx status, transport
\* failure or timeout, it yields the fetch-error outcome, so every element
\* handed to the evaluator and the formatter is an object.
C11_OnlyObjectsLeaveFetch ==
    calls.fetch = 1 =>
        /\ all_data.none <=> ~ BodyIsRecords
        /\ ~ all_data.none =>
              /\ all_data.list = (IF fetched.body.t = "obj"
                                  THEN <<fetched.body>> ELSE fetched.body.v)
              /\ \A i \in 1..Len(all_data.list) : IsDict(all_data.list[i])
        /\ \A i \in 1..Len(evalTrace) : IsDict(all_data.list[i])
        /\ \A i \in 1..Len(filtered_data) : IsDict(filtered_data[i])

=============================================================================
